---------------------------- MODULE Spec2Model ----------------------------
(***************************************************************************)
(* A model of the rueue crate: one queue engine (BaseQueue) shared by      *)
(* several threads, over one of three backing stores (VecDeque, Vec,       *)
(* BinaryHeap).  The store is guarded by the `queue` mutex; blocking calls *)
(* wait on the condition variables `not_empty` / `not_full`, which are     *)
(* paired with the separate `pending` mutex.                               *)
(***************************************************************************)
EXTENDS Integers, Sequences, FiniteSets, TLC

VARIABLES
    kind,        \* which backing store Q is: "fifo", "lifo" or "priority"
    maxsize,     \* QueueInner.maxsize: None or a capacity
    store,       \* the contents of QueueInner.queue, in insertion order
    qlock,       \* owner of the `queue` mutex, or Free
    plock,       \* owner of the `pending` mutex, or Free
    pc,          \* where each thread is inside its current call
    op,          \* the call each thread is executing
    timeout,     \* the timeout argument of the current *_wait call
    arg,         \* the value argument of the current put / put_wait call
    budget,      \* how many more calls the threads will make, all together
    result,      \* what the thread's last call returned
    nextVal,     \* the next fresh payload
    putLog,      \* history: the items inserted, in insertion order
    got,         \* history: the items removed, in removal order
    rejected,    \* history: the items handed back inside a Full fault
    nsig,        \* history: notify_one calls made on each condition variable
    putAfterGet, \* history: an insert happened after a successful removal
    handle,      \* the QueueInner each thread's handle (its `inner`) points to
    detached     \* the store of the QueueInner behind a handle that is not the shared one

vars == <<kind, maxsize, store, qlock, plock, pc, op, timeout, arg,
          budget, result, nextVal, putLog, got, rejected, nsig, putAfterGet,
          handle, detached>>

\* ------------------------------------------------------------------ bounds
MaxCalls == 3      \* calls made, by all threads together, in the concurrent specifications
MaxSize == 2       \* largest capacity bound tried
MaxN == 3          \* puts (and gets) of the single-threaded specification
MaxFairCalls == 2  \* calls made in the fairly scheduled specifications

Threads == {"t1", "t2"}
Kinds == {"fifo", "lifo", "priority"}
Prios == {8, 9, 10}
TwoPrios == {9, 10}
Prefill == {0, 1}         \* values put before the threads of FairInit start
Timeouts == {0, 1}        \* Duration zero, and a positive Duration
None == <<>>            \* Option::None; Some(n) is <<n>>
Some(n) == <<n>>
Free == "free"          \* a mutex nobody holds
NoItem == [val |-> 0, pri |-> 0]

\* ------------------------------------------------------------ pure helpers
RemoveAt(s, i) == SubSeq(s, 1, i - 1) \o SubSeq(s, i + 1, Len(s))

Range(s) == {s[i] : i \in DOMAIN s}

Reverse(s) == [i \in 1..Len(s) |-> s[Len(s) + 1 - i]]

\* PrioritizedItem::cmp: the priority key alone decides.
Cmp(a, b) == IF a.pri < b.pri THEN "Less"
             ELSE IF a.pri > b.pri THEN "Greater" ELSE "Equal"

\* --------------------------------------------------------- backing stores
\* BasicArray::get, as the set of possible (item, rest) outcomes; the empty
\* set stands for None.
FifoGetFromBack(s) ==
    IF s = <<>> THEN {}
    ELSE {[item |-> s[Len(s)], rest |-> SubSeq(s, 1, Len(s) - 1)]}

FifoGet(s) ==
    IF s = <<>> THEN {} ELSE {[item |-> Head(s), rest |-> Tail(s)]}

LifoGetFromFront(s) ==
    IF s = <<>> THEN {} ELSE {[item |-> Head(s), rest |-> Tail(s)]}

LifoGet(s) ==
    IF s = <<>> THEN {}
    ELSE {[item |-> s[Len(s)], rest |-> SubSeq(s, 1, Len(s) - 1)]}

HeapGetMin(s) ==
    {[item |-> s[i], rest |-> RemoveAt(s, i)] :
        i \in {i \in DOMAIN s : \A j \in DOMAIN s : Cmp(s[j], s[i]) # "Less"}}

\* BinaryHeap::pop: a greatest element; which one among equals is the heap's
\* own business.
HeapGet(s) ==
    {[item |-> s[i], rest |-> RemoveAt(s, i)] :
        i \in {i \in DOMAIN s : \A j \in DOMAIN s : Cmp(s[j], s[i]) # "Greater"}}

StoreGetPeek(k, s) ==
    IF s = <<>> THEN {} ELSE {[item |-> s[1], rest |-> s]}

StoreGet(k, s) ==
    CASE k = "fifo" -> FifoGet(s)
      [] k = "lifo" -> LifoGet(s)
      [] k = "priority" -> HeapGet(s)

StorePutOverwrite(k, s, v) ==
    IF s = <<>> THEN <<v>> ELSE [s EXCEPT ![Len(s)] = v]

\* BasicArray::put: push_back / push / push.
StorePut(k, s, v) == Append(s, v)

StoreLen(s) == Len(s)

\* ------------------------------------------------------------- the engine
\* Queue::is_empty / Queue::is_full, evaluated on the locked store.
IsEmptyUpToOne(s) == StoreLen(s) <= 1

IsEmpty(s) == StoreLen(s) = 0

IsFullNoneIsZero(s, m) == StoreLen(s) = (IF m = None THEN 0 ELSE m[1])

IsFull(s, m) == Some(StoreLen(s)) = m

\* The capacity test inside put.
PutAcceptsAlways(s, m) == TRUE

PutAccepts(s, m) == ~(Some(StoreLen(s)) = m)

NotifyNobody(waitOp, p) == {p}

\* Condvar::notify_one on the condition variable the callers of `waitOp`
\* wait on: one blocked waiter is woken, if there is any.
NotifyOne(waitOp, p) ==
    LET W == {u \in Threads : p[u] = "blocked" /\ op[u] = waitOp}
    IN  IF W = {} THEN {p} ELSE {[p EXCEPT ![u] = "woken"] : u \in W}

\* The QueueInner allocated by BaseQueue::new, named by its address.
Root == 0

\* Clone::clone on a handle pointing to h: Arc::clone gives a second pointer to
\* the same QueueInner.
CloneDeepCopy(h) == h + 1

Clone(h) == h

\* self.inner.queue as thread t's handle reaches it, and an assignment to it.
View(t) == IF handle[t] = Root THEN store ELSE detached[t]

SetView(t, s) ==
    IF handle[t] = Root
    THEN store' = s /\ detached' = detached
    ELSE store' = store /\ detached' = [detached EXCEPT ![t] = s]

IsGet(t) == op[t] \in {"get", "get_wait"}
IsPut(t) == op[t] \in {"put", "put_wait"}

\* The items a caller may pass: a fresh payload, with a priority key when the
\* queue is a PriorityQueue.
NewItems(P) ==
    IF kind = "priority" THEN {[val |-> nextVal, pri |-> p] : p \in P}
    ELSE {[val |-> nextVal, pri |-> 0]}

hist == <<putLog, got, rejected, nsig, putAfterGet>>

\* The outcomes of a call: Ok(value), Ok(()), Err(QueueError::Empty) and
\* Err(PutError(value, QueueError::Full)).
OkItem(v) == [tag |-> "Ok", item |-> v]
OkUnit == [tag |-> "Done", item |-> NoItem]
EmptyFault == [tag |-> "Empty", item |-> NoItem]
PutFaultNoValue(v) == [tag |-> "Full", item |-> NoItem]
PutFault(v) == [tag |-> "Full", item |-> v]

\* A call returns r to thread t; p is pc after the call's last notify_one.

Return(t, r, p) ==
    /\ pc' = [p EXCEPT ![t] = "idle"]
    /\ result' = [result EXCEPT ![t] = [op |-> op[t], timeout |-> timeout[t],
                                        tag |-> r.tag, item |-> r.item]]
    /\ op' = [op EXCEPT ![t] = "none"]
    /\ arg' = [arg EXCEPT ![t] = NoItem]
    /\ timeout' = [timeout EXCEPT ![t] = 0]

\* -------------------------------------------------------------- the calls
CallGet(t) ==
    /\ pc[t] = "idle" /\ budget > 0
    /\ budget' = budget - 1
    /\ op' = [op EXCEPT ![t] = "get"]
    /\ pc' = [pc EXCEPT ![t] = "call"]
    /\ UNCHANGED <<kind, maxsize, handle, detached, store, qlock, plock, timeout, arg,
                   result, nextVal, hist>>

CallPut(t, P) ==
    /\ pc[t] = "idle" /\ budget > 0
    /\ budget' = budget - 1
    /\ \E v \in NewItems(P) : arg' = [arg EXCEPT ![t] = v]
    /\ nextVal' = nextVal + 1
    /\ op' = [op EXCEPT ![t] = "put"]
    /\ pc' = [pc EXCEPT ![t] = "call"]
    /\ UNCHANGED <<kind, maxsize, handle, detached, store, qlock, plock, timeout,
                   result, hist>>

CallGetWaitWaitsFirst(t) ==
    /\ pc[t] = "idle" /\ budget > 0
    /\ budget' = budget - 1
    /\ \E d \in Timeouts : timeout' = [timeout EXCEPT ![t] = d]
    /\ op' = [op EXCEPT ![t] = "get_wait"]
    /\ pc' = [pc EXCEPT ![t] = "plock"]
    /\ UNCHANGED <<kind, maxsize, handle, detached, store, qlock, plock, arg,
                   result, nextVal, hist>>

\* get_wait(timeout): timestamp = now, then the first emptiness test.
CallGetWait(t) ==
    /\ pc[t] = "idle" /\ budget > 0
    /\ budget' = budget - 1
    /\ \E d \in Timeouts : timeout' = [timeout EXCEPT ![t] = d]
    /\ op' = [op EXCEPT ![t] = "get_wait"]
    /\ pc' = [pc EXCEPT ![t] = "check"]
    /\ UNCHANGED <<kind, maxsize, handle, detached, store, qlock, plock, arg,
                   result, nextVal, hist>>

CallPutWait(t, P) ==
    /\ pc[t] = "idle" /\ budget > 0
    /\ budget' = budget - 1
    /\ \E v \in NewItems(P) : arg' = [arg EXCEPT ![t] = v]
    /\ nextVal' = nextVal + 1
    /\ \E d \in Timeouts : timeout' = [timeout EXCEPT ![t] = d]
    /\ op' = [op EXCEPT ![t] = "put_wait"]
    /\ pc' = [pc EXCEPT ![t] = "check"]
    /\ UNCHANGED <<kind, maxsize, handle, detached, store, qlock, plock,
                   result, hist>>

\* ------------------------------------------------------ steps inside calls
\* self.inner.queue.lock(): for len() in is_empty / is_full, or for get / put.
LockQueue(t) ==
    /\ pc[t] \in {"check", "call"}
    /\ qlock = Free
    /\ qlock' = t
    /\ pc' = [pc EXCEPT ![t] = IF pc[t] = "check" THEN "check_locked"
                                                  ELSE "call_locked"]
    /\ UNCHANGED <<kind, maxsize, handle, detached, store, plock, op, timeout, arg,
                   budget, result, nextVal, hist>>

CheckBodyKeepsLock(t) ==
    /\ pc[t] = "check_locked"
    /\ LET again == IF op[t] = "get_wait" THEN IsEmpty(View(t))
                                          ELSE IsFull(View(t), maxsize)
       IN  pc' = [pc EXCEPT ![t] = IF again THEN "plock" ELSE "call"]
    /\ UNCHANGED <<kind, maxsize, handle, detached, store, qlock, plock, op,
                   timeout, arg, budget, result, nextVal, hist>>

\* The loop test `while self.is_empty()` / `while self.is_full()`: the length
\* is read under the queue lock, which is released before the test is used.
CheckBody(t) ==
    /\ pc[t] = "check_locked"
    /\ qlock' = Free
    /\ LET again == IF op[t] = "get_wait" THEN IsEmpty(View(t))
                                          ELSE IsFull(View(t), maxsize)
       IN  pc' = [pc EXCEPT ![t] = IF again THEN "plock" ELSE "call"]
    /\ UNCHANGED <<kind, maxsize, handle, detached, store, plock, op, timeout, arg,
                   budget, result, nextVal, hist>>

\* self.inner.pending.lock(), the argument of wait / wait_timeout.
LockPending(t) ==
    /\ pc[t] = "plock"
    /\ plock = Free
    /\ plock' = t
    /\ pc' = [pc EXCEPT ![t] = "wait"]
    /\ UNCHANGED <<kind, maxsize, handle, detached, store, qlock, op, timeout, arg,
                   budget, result, nextVal, hist>>

\* Condvar::wait / wait_timeout: release `pending` and block, atomically.
Wait(t) ==
    /\ pc[t] = "wait"
    /\ plock' = Free
    /\ pc' = [pc EXCEPT ![t] = "blocked"]
    /\ UNCHANGED <<kind, maxsize, handle, detached, store, qlock, op, timeout, arg,
                   budget, result, nextVal, hist>>

\* A wake-up nobody asked for.
Spurious(t) ==
    /\ pc[t] = "blocked"
    /\ pc' = [pc EXCEPT ![t] = "woken"]
    /\ UNCHANGED <<kind, maxsize, handle, detached, store, qlock, plock, op, timeout, arg,
                   budget, result, nextVal, hist>>

\* wait_timeout's duration runs out.
TimeoutWake(t) ==
    /\ pc[t] = "blocked"
    /\ timeout[t] > 0
    /\ pc' = [pc EXCEPT ![t] = "woken_to"]
    /\ UNCHANGED <<kind, maxsize, handle, detached, store, qlock, plock, op, timeout, arg,
                   budget, result, nextVal, hist>>

\* wait / wait_timeout re-acquire `pending` before they return.
Reacquire(t) ==
    /\ pc[t] \in {"woken", "woken_to"}
    /\ plock = Free
    /\ plock' = t
    /\ pc' = [pc EXCEPT ![t] = IF pc[t] = "woken" THEN "after_wait"
                                                  ELSE "after_wait_to"]
    /\ UNCHANGED <<kind, maxsize, handle, detached, store, qlock, op, timeout, arg,
                   budget, result, nextVal, hist>>

\* The fault a waiting call gives up with.
WaitFaultNoValue(t) ==
    IF op[t] = "get_wait" THEN EmptyFault ELSE PutFaultNoValue(arg[t])

WaitFault(t) ==
    IF op[t] = "get_wait" THEN EmptyFault ELSE PutFault(arg[t])

\* The rest of the loop body when the call goes round again: the wait was
\* ended by a wake-up and, in a timed call, timestamp.elapsed() is still below
\* the timeout (the clock is read here, and may or may not have got there).
\* The guard of `pending` is dropped at the end of the body.
Retry(t) ==
    /\ pc[t] = "after_wait"
    /\ plock' = Free
    /\ pc' = [pc EXCEPT ![t] = "check"]
    /\ UNCHANGED <<kind, maxsize, handle, detached, store, qlock, op, timeout, arg,
                   budget, result, nextVal, hist>>

GiveUpKeepsWaiting(t) ==
    /\ pc[t] \in {"after_wait", "after_wait_to"}
    /\ timeout[t] > 0
    /\ plock' = Free
    /\ pc' = [pc EXCEPT ![t] = "check"]
    /\ UNCHANGED <<kind, maxsize, handle, detached, store, qlock, op, timeout, arg,
                   budget, result, nextVal, hist>>

\* The two early returns of a timed call: the wait timed out, or
\* timestamp.elapsed() has reached the timeout.
GiveUp(t) ==
    /\ pc[t] \in {"after_wait", "after_wait_to"}
    /\ timeout[t] > 0
    /\ plock' = Free
    /\ Return(t, WaitFault(t), pc)
    /\ rejected' = IF op[t] = "put_wait" THEN rejected \cup {arg[t]}
                                         ELSE rejected
    /\ UNCHANGED <<kind, maxsize, handle, detached, store, qlock, budget, nextVal,
                   putLog, got, nsig, putAfterGet>>

\* Queue::get, under the queue lock.
GetBody(t) ==
    /\ pc[t] = "call_locked" /\ IsGet(t)
    /\ qlock' = Free
    /\ IF StoreGet(kind, View(t)) = {}
       THEN /\ Return(t, EmptyFault, pc)
            /\ UNCHANGED <<store, detached, hist>>
       ELSE \E r \in StoreGet(kind, View(t)) :
              \E p \in NotifyOne("put_wait", pc) :
                /\ SetView(t, r.rest)
                /\ nsig' = [nsig EXCEPT !.not_full = @ + 1]
                /\ got' = Append(got, r.item)
                /\ Return(t, OkItem(r.item), p)
                /\ UNCHANGED <<putLog, rejected, putAfterGet>>
    /\ UNCHANGED <<kind, maxsize, handle, plock, budget, nextVal>>

\* Queue::put, under the queue lock.
PutBody(t) ==
    /\ pc[t] = "call_locked" /\ IsPut(t)
    /\ qlock' = Free
    /\ IF ~PutAccepts(View(t), maxsize)
       THEN /\ Return(t, PutFault(arg[t]), pc)
            /\ rejected' = rejected \cup {arg[t]}
            /\ UNCHANGED <<store, detached, putLog, got, nsig, putAfterGet>>
       ELSE \E p \in NotifyOne("get_wait", pc) :
                /\ SetView(t, StorePut(kind, View(t), arg[t]))
                /\ nsig' = [nsig EXCEPT !.not_empty = @ + 1]
                /\ putLog' = Append(putLog, arg[t])
                /\ putAfterGet' = (putAfterGet \/ got # <<>>)
                /\ Return(t, OkUnit, p)
                /\ UNCHANGED <<got, rejected>>
    /\ UNCHANGED <<kind, maxsize, handle, plock, budget, nextVal>>

\* ------------------------------------------------- observers and cloning
\* What len returns, and what is_empty / is_full return.
LenValue(n) == [tag |-> "Len", item |-> [val |-> n, pri |-> 0]]
BoolValue(b) == [tag |-> IF b THEN "True" ELSE "False", item |-> NoItem]

IsObserve(t) == op[t] \in {"len", "is_empty", "is_full"}

\* len, is_empty and is_full take no argument; each starts by locking the
\* queue mutex inside len().
CallObserve(t, o) ==
    /\ pc[t] = "idle" /\ budget > 0
    /\ budget' = budget - 1
    /\ op' = [op EXCEPT ![t] = o]
    /\ pc' = [pc EXCEPT ![t] = "call"]
    /\ UNCHANGED <<kind, maxsize, handle, detached, store, qlock, plock,
                   timeout, arg, result, nextVal, hist>>

CallLen(t) == CallObserve(t, "len")
CallIsEmpty(t) == CallObserve(t, "is_empty")
CallIsFull(t) == CallObserve(t, "is_full")

\* The length is read under the queue lock; the lock is released and the
\* answer is computed from the length (and, for is_full, from maxsize).
ObserveBody(t) ==
    /\ pc[t] = "call_locked" /\ IsObserve(t)
    /\ qlock' = Free
    /\ Return(t, CASE op[t] = "len" -> LenValue(StoreLen(View(t)))
                   [] op[t] = "is_empty" -> BoolValue(IsEmpty(View(t)))
                   [] op[t] = "is_full" -> BoolValue(IsFull(View(t), maxsize)),
              pc)
    /\ UNCHANGED <<kind, maxsize, handle, detached, store, plock,
                   budget, nextVal, hist>>

\* Thread t replaces its handle by a clone of thread u's handle.  Should the
\* clone point to a QueueInner of its own, that one starts as a copy.
CloneHandle(t, u) ==
    /\ pc[t] = "idle"
    /\ handle' = [handle EXCEPT ![t] = Clone(handle[u])]
    /\ detached' = [detached EXCEPT ![t] = IF handle'[t] = Root THEN @
                                                               ELSE View(u)]
    /\ result' = [result EXCEPT ![t] = [op |-> "clone", timeout |-> 0,
                                        tag |-> "Handle", item |-> NoItem]]
    /\ UNCHANGED <<kind, maxsize, store, qlock, plock, pc, op, timeout, arg,
                   budget, nextVal, hist>>

\* ----------------------------------------------------------- specifications
InitThreads ==
    /\ qlock = Free /\ plock = Free
    /\ pc = [t \in Threads |-> "idle"]
    /\ op = [t \in Threads |-> "none"]
    /\ timeout = [t \in Threads |-> 0]
    /\ arg = [t \in Threads |-> NoItem]
    /\ result = [t \in Threads |-> [op |-> "none", timeout |-> 0,
                                     tag |-> "none", item |-> NoItem]]

\* Every thread is given a clone of the handle BaseQueue::new returned.
InitHandles ==
    /\ handle = [t \in Threads |-> Clone(Root)]
    /\ detached = [t \in Threads |-> IF handle[t] = Root THEN <<>> ELSE store]

InitCommon ==
    /\ InitThreads
    /\ store = <<>>
    /\ nextVal = 1
    /\ putLog = <<>> /\ got = <<>> /\ rejected = {}
    /\ nsig = [not_empty |-> 0, not_full |-> 0]
    /\ putAfterGet = FALSE
    /\ InitHandles

\* BaseQueue::new(maxsize), then handles of it cloned into every thread.
Init ==
    /\ kind \in Kinds
    /\ maxsize \in {None} \cup {Some(n) : n \in 0..MaxSize}
    /\ budget = MaxCalls
    /\ InitCommon

Step(t) ==
    \/ LockQueue(t) \/ CheckBody(t) \/ LockPending(t) \/ Wait(t)
    \/ Reacquire(t) \/ Retry(t) \/ GiveUp(t) \/ GetBody(t) \/ PutBody(t)

Next ==
    \E t \in Threads :
        \/ CallGet(t) \/ CallPut(t, TwoPrios) \/ CallGetWait(t)
        \/ CallPutWait(t, TwoPrios)
        \/ Step(t) \/ Spurious(t) \/ TimeoutWake(t)

Spec == Init /\ [][Next]_vars

\* One caller alone on an unbounded queue, using get and put only.
SeqInit ==
    /\ kind \in Kinds
    /\ maxsize = None
    /\ budget = 2 * MaxN
    /\ InitCommon

SeqNext ==
    \/ CallGet("t1") \/ CallPut("t1", Prios)
    \/ LockQueue("t1") \/ GetBody("t1") \/ PutBody("t1")

SeqSpec == SeqInit /\ [][SeqNext]_vars

\* What the scheduler and the clock guarantee: a thread inside a call keeps
\* taking its steps and gets a mutex that is free again and again; a
\* wait_timeout left alone runs out; and the clock reaches timestamp + timeout,
\* so a timed call that keeps coming back to its elapsed() test leaves through
\* it.  Nothing makes a caller start a call, and nothing promises a spurious
\* wake-up.
Fairness ==
    \A t \in Threads :
        /\ SF_vars(Step(t))
        /\ SF_vars(GiveUp(t))
        /\ WF_vars(TimeoutWake(t))

\* The concurrent engine on a FIFO queue, fairly scheduled.  The queue is new,
\* or its creator has put a first value before the threads start.
FairInit ==
    /\ kind = "fifo"
    /\ maxsize \in {None, Some(0), Some(1)}
    /\ budget = MaxFairCalls
    /\ InitThreads
    /\ \E n \in Prefill :
        /\ PutAccepts(<<>>, maxsize) \/ n = 0
        /\ store = [i \in 1..n |-> [val |-> i, pri |-> 0]]
        /\ putLog = store
        /\ nextVal = n + 1
        /\ nsig = [not_empty |-> n, not_full |-> 0]
    /\ got = <<>> /\ rejected = {}
    /\ putAfterGet = FALSE
    /\ InitHandles

FairSpec == FairInit /\ [][Next]_vars /\ Fairness

\* One consumer (t1) and one producer (t2) on a FIFO queue, fairly scheduled.
WakeNext ==
    \/ CallGet("t1") \/ CallGetWait("t1")
    \/ CallPut("t2", TwoPrios) \/ CallPutWait("t2", TwoPrios)
    \/ \E t \in Threads : Step(t) \/ Spurious(t) \/ TimeoutWake(t)

WakeSpec == FairInit /\ [][WakeNext]_vars /\ Fairness

\* The concurrent engine with the observers and with cloning, fairly
\* scheduled: a thread inside len / is_empty / is_full keeps taking its steps
\* like any other.
ObsNext ==
    \E t \in Threads :
        \/ CallGet(t) \/ CallPut(t, TwoPrios) \/ CallGetWait(t)
        \/ CallPutWait(t, TwoPrios)
        \/ CallLen(t) \/ CallIsEmpty(t) \/ CallIsFull(t)
        \/ \E u \in Threads : CloneHandle(t, u)
        \/ Step(t) \/ ObserveBody(t) \/ Spurious(t) \/ TimeoutWake(t)

ObsFairness ==
    \A t \in Threads :
        /\ SF_vars(Step(t) \/ ObserveBody(t))
        /\ SF_vars(GiveUp(t))
        /\ WF_vars(TimeoutWake(t))

ObsSpec == FairInit /\ [][ObsNext]_vars /\ ObsFairness

\* The same calls without cloning, on a queue of capacity 1 that is empty or
\* full when the threads start: either kind of waiting call can block on it.
LiveInit == FairInit /\ maxsize = Some(1)

LiveNext ==
    \E t \in Threads :
        \/ CallGet(t) \/ CallPut(t, TwoPrios) \/ CallGetWait(t)
        \/ CallPutWait(t, TwoPrios)
        \/ CallLen(t) \/ CallIsEmpty(t) \/ CallIsFull(t)
        \/ Step(t) \/ ObserveBody(t) \/ Spurious(t) \/ TimeoutWake(t)

LiveSpec == LiveInit /\ [][LiveNext]_vars /\ ObsFairness

\* The example of the crate documentation: on a new unbounded FIFO queue the
\* producer (t2) calls put_wait with a positive timeout for the values
\* 0 .. MaxN - 1, in that order; the consumer (t1) calls get_wait with timeout 0
\* MaxN times and then is_empty.
DocInit ==
    /\ kind = "fifo"
    /\ maxsize = None
    /\ budget = 2 * MaxN + 1
    /\ InitThreads
    /\ store = <<>>
    /\ nextVal = 0
    /\ putLog = <<>> /\ got = <<>> /\ rejected = {}
    /\ nsig = [not_empty |-> 0, not_full |-> 0]
    /\ putAfterGet = FALSE
    /\ InitHandles

\* The calls the consumer has made so far: all calls but the producer's.
ConsumerCalls == (2 * MaxN + 1 - budget) - nextVal

DocProduce ==
    /\ nextVal < MaxN
    /\ CallPutWait("t2", TwoPrios)
    /\ timeout'["t2"] > 0

DocConsume ==
    /\ ConsumerCalls < MaxN
    /\ CallGetWait("t1")
    /\ timeout'["t1"] = 0

DocCheckEmpty ==
    /\ ConsumerCalls = MaxN
    /\ CallIsEmpty("t1")

\* The steps inside these calls.  The producer's queue is never full and the
\* consumer's waits have no timeout, so no wait runs out and no call gives up.
DocStep(t) ==
    \/ LockQueue(t) \/ CheckBody(t) \/ LockPending(t) \/ Wait(t)
    \/ Reacquire(t) \/ Retry(t) \/ GetBody(t) \/ PutBody(t) \/ ObserveBody(t)

DocNext ==
    \/ DocProduce \/ DocConsume \/ DocCheckEmpty
    \/ \E t \in Threads : DocStep(t) \/ Spurious(t)

\* Both spawned threads run: each starts its next call and keeps taking the
\* steps of the call it is in.  A spurious wake-up is possible, not promised.
DocFairness ==
    /\ WF_vars(DocProduce)
    /\ WF_vars(DocConsume \/ DocCheckEmpty)
    /\ \A t \in Threads : SF_vars(DocStep(t))

DocSpec == DocInit /\ [][DocNext]_vars /\ DocFairness

\* One caller alone, using the waiting calls as well: no other thread is
\* active, so nothing changes the store while a call is in progress.
AloneInit ==
    /\ kind \in Kinds
    /\ maxsize \in {None} \cup {Some(n) : n \in 0..MaxSize}
    /\ budget = MaxCalls
    /\ InitCommon

AloneNext ==
    \/ CallGet("t1") \/ CallPut("t1", Prios) \/ CallGetWait("t1")
    \/ CallPutWait("t1", Prios)
    \/ Step("t1") \/ Spurious("t1") \/ TimeoutWake("t1")

AloneSpec == AloneInit /\ [][AloneNext]_vars

\* ------------------------------------------------------------------ claims
\* The payloads handed to put / put_wait so far.
Handed == 1..(nextVal - 1)

\* How many copies of payload v are at each of the places a value can be.
InStore(v) == Cardinality({i \in DOMAIN store : store[i].val = v})
InGot(v) == Cardinality({i \in DOMAIN got : got[i].val = v})
InRejected(v) == Cardinality({x \in rejected : x.val = v})
InFlight(v) == Cardinality({t \in Threads : arg[t].val = v})

\* C1: on a queue constructed with capacity bound N the store never holds more
\* than N elements, whatever put, put_wait, get and get_wait calls interleave.
C1_CapacityNeverExceeded ==
    maxsize # None => StoreLen(store) <= maxsize[1]

\* A put has just been refused on a queue that N successful puts had filled.
C1_Witness ==
    /\ maxsize = Some(MaxSize)
    /\ StoreLen(store) = MaxSize
    /\ \E t \in Threads : result[t].tag = "Full"

\* C3: a non-blocking put on a bounded queue whose length equals its capacity
\* returns Full carrying exactly the value passed in, leaves the store (hence
\* its length) as it was, and raises no signal: no notify_one, no waiter woken.
C3_PutOnFull ==
    [][\A t \in Threads :
        (/\ pc[t] = "call_locked" /\ op[t] = "put" /\ pc'[t] = "idle"
         /\ maxsize # None /\ StoreLen(store) = maxsize[1])
        => /\ result'[t].tag = "Full"
           /\ result'[t].item = arg[t]
           /\ store' = store
           /\ nsig' = nsig
           /\ putLog' = putLog
           /\ pc' = [pc EXCEPT ![t] = "idle"]]_vars

\* After N successful puts on a queue with bound N, the (N+1)th put has failed
\* with its own value and the length is still N.
C3_Witness ==
    /\ maxsize = Some(MaxSize) /\ MaxSize > 0
    /\ Len(putLog) = MaxSize /\ got = <<>>
    /\ StoreLen(store) = MaxSize
    /\ \E t \in Threads :
        /\ result[t].op = "put" /\ result[t].tag = "Full"
        /\ result[t].item.val = MaxSize + 1
        /\ rejected = {result[t].item}

\* C4: a non-blocking get on an empty store returns Empty without blocking and
\* leaves the store unchanged; on a non-empty store it removes exactly one
\* element and returns it, so the length drops by one.  On a queue nothing was
\* ever put into, every get has returned Empty and the length is 0.
C4_Get ==
    /\ [](\A t \in Threads : op[t] = "get" => pc[t] \in {"call", "call_locked"})
    /\ [](putLog = <<>> =>
            /\ StoreLen(store) = 0
            /\ \A t \in Threads : result[t].op = "get" => result[t].tag = "Empty")
    /\ [][\A t \in Threads :
            (pc[t] = "call_locked" /\ op[t] = "get" /\ pc'[t] = "idle")
            => IF StoreLen(store) = 0
               THEN /\ result'[t].tag = "Empty"
                    /\ store' = store
                    /\ StoreLen(store') = 0
                    /\ nsig' = nsig
               ELSE /\ result'[t].tag = "Ok"
                    /\ \E i \in DOMAIN store :
                          /\ result'[t].item = store[i]
                          /\ store' = RemoveAt(store, i)
                    /\ StoreLen(store') = StoreLen(store) - 1]_vars

\* One get found the fresh queue empty, a later one took an element out.
C4_Witness ==
    /\ result["t1"].op = "get" /\ result["t1"].tag = "Empty"
    /\ result["t2"].op = "get" /\ result["t2"].tag = "Ok"
    /\ StoreLen(store) = 0

\* C5: no value is lost or duplicated.  Every value handed to put / put_wait is
\* at exactly one place: still with the call that is inserting it, in the
\* store, returned by exactly one successful get / get_wait, or handed back
\* inside a Full fault (once the call is over, one of the last three); and
\* nothing is returned that was not put.
C5_NoLossNoDuplication ==
    /\ \A v \in Handed : InFlight(v) + InStore(v) + InGot(v) + InRejected(v) = 1
    /\ \A i \in DOMAIN got : got[i] \in Range(putLog) /\ got[i].val \in Handed
    /\ \A i \in DOMAIN store : store[i] \in Range(putLog)
    /\ \A t \in Threads :
        /\ result[t].tag = "Ok" => result[t].item \in Range(got)
        /\ result[t].tag = "Full" => result[t].item \in rejected

\* All calls are over; of the two values handed in, one was returned by a get
\* and the other was handed back inside a Full fault.
C5_Witness ==
    /\ \A t \in Threads : pc[t] = "idle"
    /\ nextVal = 3
    /\ Len(got) = 1 /\ Cardinality(rejected) = 1
    /\ \A v \in Handed : InFlight(v) = 0

\* The places of a *_wait call from which only the calling thread moves on, up
\* to its final get / put.
WaitLoopPcs == {"check", "check_locked", "plock", "wait", "woken", "woken_to",
                "after_wait", "after_wait_to"}

\* C9: a timed wait that expires has no side effects.  The return of a timed
\* get_wait with Empty, or of a timed put_wait with Full, from the waiting loop
\* changes neither the store nor the count of signals raised, wakes nobody, and
\* the Full fault carries exactly the value passed in; and no earlier step of
\* the call's loop touched the store or raised a signal either.
C9_ExpiredWaitHasNoEffect ==
    [][\A t \in Threads :
        /\ (/\ pc[t] \in {"after_wait", "after_wait_to"} /\ timeout[t] > 0
            /\ pc'[t] = "idle")
           => /\ store' = store /\ nsig' = nsig
              /\ putLog' = putLog /\ got' = got
              /\ pc' = [pc EXCEPT ![t] = "idle"]
              /\ result'[t].tag = (IF op[t] = "get_wait" THEN "Empty" ELSE "Full")
              /\ op[t] = "put_wait" => result'[t].item = arg[t]
        /\ (pc[t] \in WaitLoopPcs /\ pc'[t] # pc[t])
           => /\ store' = store /\ nsig' = nsig
              /\ putLog' = putLog /\ got' = got]_vars

\* On a queue of capacity 0 a timed get_wait has given up with Empty and a
\* timed put_wait with Full and its own value; nothing was inserted, removed or
\* signalled.
C9_Witness ==
    /\ maxsize = Some(0)
    /\ result["t1"].op = "get_wait" /\ result["t1"].timeout > 0
    /\ result["t1"].tag = "Empty"
    /\ result["t2"].op = "put_wait" /\ result["t2"].timeout > 0
    /\ result["t2"].tag = "Full" /\ result["t2"].item.val = 1
    /\ store = <<>> /\ nsig.not_empty = 0 /\ nsig.not_full = 0

\* --------------------------------------------- one caller, puts then gets
\* The items inserted and not yet removed, from the history; payloads are
\* unique, so an item is identified by its payload.
Remaining == {i \in DOMAIN putLog : \A j \in DOMAIN got : got[j].val # putLog[i].val}

Newest == putLog[CHOOSE i \in Remaining : \A j \in Remaining : j <= i]

Last(s) == s[Len(s)]

\* C6: on an unbounded FIFO queue, after puts of v1..vN the gets that follow
\* yield v1, v2, ... in that exact order (the k-th get yields vk), all N of them
\* when N gets are made.
C6_FifoOrder ==
    (kind = "fifo" /\ maxsize = None /\ ~putAfterGet)
        => /\ Len(got) <= Len(putLog)
           /\ got = SubSeq(putLog, 1, Len(got))
           /\ store = SubSeq(putLog, Len(got) + 1, Len(putLog))

\* MaxN puts, then MaxN gets that emptied the queue.
C6_Witness ==
    /\ kind = "fifo" /\ maxsize = None /\ ~putAfterGet
    /\ Len(putLog) = MaxN /\ Len(got) = MaxN /\ store = <<>>

\* C7: on an unbounded LIFO queue, after puts of v1..vN the gets that follow
\* yield vN, vN-1, ...; and, whatever the order of puts and gets, each
\* successful get returns the most recently inserted element still in the store.
C7_LifoOrder ==
    /\ []((kind = "lifo" /\ maxsize = None /\ ~putAfterGet)
            => /\ Len(got) <= Len(putLog)
               /\ got = SubSeq(Reverse(putLog), 1, Len(got)))
    /\ [][(kind = "lifo" /\ got' # got)
            => /\ Remaining # {}
               /\ got' = Append(got, Newest)]_vars

\* MaxN puts, then MaxN gets that emptied the stack.
C7_Witness ==
    /\ kind = "lifo" /\ maxsize = None /\ ~putAfterGet
    /\ Len(putLog) = MaxN /\ Len(got) = MaxN /\ store = <<>>

ExamplePuts == <<[val |-> 1, pri |-> 10], [val |-> 2, pri |-> 8],
                 [val |-> 3, pri |-> 9]>>
ExampleGets == <<[val |-> 1, pri |-> 10], [val |-> 3, pri |-> 9],
                 [val |-> 2, pri |-> 8]>>

\* C8: on a priority queue every successful get returns an item whose priority
\* is maximal among the items in the store at that moment, payload and key
\* together as they were inserted; after puts of payloads 1, 2, 3 with
\* priorities 10, 8, 9 the gets return payload 1 (10), then 3 (9), then 2 (8).
C8_PriorityOrder ==
    /\ []((kind = "priority" /\ putLog = ExamplePuts /\ ~putAfterGet)
            => got = SubSeq(ExampleGets, 1, Len(got)))
    /\ [][(kind = "priority" /\ got' # got)
            => /\ Len(got') = Len(got) + 1 /\ SubSeq(got', 1, Len(got)) = got
               /\ Last(got') \in {putLog[i] : i \in Remaining}
               /\ \A i \in Remaining : putLog[i].pri <= Last(got').pri
               /\ \E t \in Threads : result'[t].item = Last(got')]_vars

\* The three puts of the example, and the three gets after them.
C8_Witness ==
    /\ kind = "priority" /\ putLog = ExamplePuts /\ ~putAfterGet
    /\ got = ExampleGets /\ store = <<>>
    /\ result["t1"].op = "get" /\ result["t1"].item = ExampleGets[3]

\* ------------------------------------------------------------ liveness
\* C2: blocking wake-up.  With t1 the only consumer, once a value X put by the
\* other thread is at the head of the store while t1 is inside get_wait with
\* timeout 0, that call eventually returns X, whatever the interleaving of t1's
\* emptiness check, its wait and the producer's insert and notify.
C2_BlockingWakeUp ==
    \A v \in 1..(MaxFairCalls + 1) :
        (/\ op["t1"] = "get_wait" /\ timeout["t1"] = 0
         /\ store # <<>> /\ Head(store).val = v)
        ~> (/\ pc["t1"] = "idle" /\ result["t1"].op = "get_wait"
            /\ result["t1"].tag = "Ok" /\ result["t1"].item.val = v)

\* The consumer found the queue empty, the producer then inserted X and
\* notified nobody, and the consumer went to wait for the signal that is past.
C2_LostWakeUp ==
    /\ op["t1"] = "get_wait" /\ timeout["t1"] = 0 /\ pc["t1"] = "blocked"
    /\ store # <<>> /\ nsig.not_empty = 1
    /\ pc["t2"] = "idle" /\ result["t2"].op = "put" /\ result["t2"].tag = "Done"

\* C10: every get_wait or put_wait call with timeout > 0 eventually returns,
\* whatever the other threads do; and on a queue nothing is ever put into, a
\* timed get_wait has returned the Empty fault.
C10_TimedWaitReturns ==
    /\ \A t \in Threads : (timeout[t] > 0) ~> (pc[t] = "idle")
    /\ [](\A t \in Threads :
            (putLog = <<>> /\ result[t].op = "get_wait" /\ result[t].timeout > 0)
            => result[t].tag = "Empty")

\* Both threads made timed calls that could not succeed (capacity 0, nothing
\* ever inserted) and both are back.
C10_Witness ==
    /\ maxsize = Some(0) /\ putLog = <<>>
    /\ \A t \in Threads : pc[t] = "idle"
    /\ \E t \in Threads :
        /\ result[t].op = "get_wait" /\ result[t].timeout > 0
        /\ result[t].tag = "Empty"
    /\ \E t \in Threads :
        /\ result[t].op = "put_wait" /\ result[t].timeout > 0
        /\ result[t].tag = "Full"

\* ------------------------------------------------------------------- C11
\* The calls of put_wait that are waiting for room, or about to.
WaitingPcs == {"plock", "wait", "blocked", "woken", "woken_to",
               "after_wait", "after_wait_to"}

\* C11: on a queue constructed without a size bound, is_full is false whatever
\* the length, no put or put_wait has returned the Full fault or handed an
\* item back, and no put_wait call waits for the not-full signal.
C11_UnboundedNeverFull ==
    maxsize = None =>
        /\ ~IsFull(store, maxsize)
        /\ rejected = {}
        /\ \A t \in Threads :
            /\ result[t].tag # "Full"
            /\ op[t] = "put_wait" => pc[t] \notin WaitingPcs

\* An unbounded queue that holds every item the threads were allowed to put,
\* one of them put by a put_wait call that has returned.
C11_Witness ==
    /\ maxsize = None /\ Len(store) = MaxCalls
    /\ \E t \in Threads : result[t].op = "put_wait" /\ result[t].tag = "Done"

\* ------------------------------------------------------------------- C12
NonWaitingOps == {"get", "put", "len", "is_empty", "is_full"}

\* Where a thread is between testing the store and being back from its wait:
\* acquiring `pending`, holding it, or blocked on a condition variable.
PendingPcs == {"plock", "woken", "woken_to"}
HoldingPendingPcs == {"wait", "after_wait", "after_wait_to"}

\* C12: under fair scheduling every call of get, put, len, is_empty and is_full
\* returns; the thread that holds the queue lock is inside the critical
\* section of a length test or of get / put, never blocked on a condition
\* variable and never acquiring or holding `pending`; no thread asks for the
\* queue lock while it holds `pending`; and
\* the holder of either lock can always take its next step, which releases it.
C12_NonWaitingNeverBlock ==
    /\ \A t \in Threads : (op[t] \in NonWaitingOps) ~> (pc[t] = "idle")
    /\ [](\A t \in Threads :
            /\ qlock = t => pc[t] \in {"check_locked", "call_locked"}
            /\ plock = t => pc[t] \in HoldingPendingPcs
            /\ pc[t] \in PendingPcs \cup HoldingPendingPcs \cup {"blocked"}
                 => qlock # t
            /\ qlock = t => ENABLED (qlock' = Free /\ (Step(t) \/ ObserveBody(t)))
            /\ plock = t => ENABLED (plock' = Free /\ Step(t)))

\* One thread is blocked for good on a condition variable (timeout 0, no call
\* left to wake it) and the other has completed an observer call meanwhile.
C12_Witness ==
    \E t, u \in Threads :
        /\ pc[t] = "blocked" /\ timeout[t] = 0 /\ budget = 0
        /\ pc[u] = "idle" /\ result[u].op \in {"len", "is_empty", "is_full"}

\* ------------------------------------------------------------------- C13
\* Thread t's call returns in this step with outcome tag g.
Returns(t, g) == pc[t] = "call_locked" /\ pc'[t] = "idle" /\ result'[t].tag = g

\* Thread t takes a clone in this step (a clone taken right after another
\* changes nothing unless it changes the handle).
Clones(t) ==
    /\ pc[t] = "idle" /\ result'[t].op = "clone"
    /\ result[t].op # "clone" \/ handle'[t] # handle[t]

\* C13: every handle, cloned at the start or later, points to the QueueInner
\* that new allocated, and so to its one store, bound and pair of condition
\* variables; an insert made through one handle appears, in the same step, at
\* the end of the store every handle reaches, a removal made through one
\* handle shortens the store every handle reaches and leaves it not full, and
\* what len and get return through a handle is the length of, and an element
\* of, that one store; taking a clone changes no store.
C13_SharedHandles ==
    /\ [](\A t \in Threads : handle[t] = Root /\ View(t) = store)
    /\ [][\A t, u \in Threads :
            /\ Returns(t, "Done") => View(u)' = Append(View(u), arg[t])
            /\ Returns(t, "Ok") =>
                /\ Len(View(u)') = Len(View(u)) - 1
                /\ ~IsFull(View(u)', maxsize)
                /\ \E i \in DOMAIN store : result'[t].item = store[i]
            /\ Returns(t, "Len") => result'[t].item.val = Len(store)
            /\ Clones(t) => View(u)' = View(u) /\ store' = store]_vars

\* On a queue that started empty, t1's put has been received by t2's get.
C13_Witness ==
    /\ nextVal = 2 /\ Len(putLog) = 1 /\ got = putLog
    /\ result["t1"].op = "put" /\ result["t1"].tag = "Done"
    /\ result["t2"].op = "get" /\ result["t2"].tag = "Ok"
    /\ result["t2"].item = putLog[1]

\* ------------------------------------------------------------------- C14
\* Thread t's len / is_empty / is_full call returns in this step.
Observes(t) == pc[t] = "call_locked" /\ IsObserve(t) /\ pc'[t] = "idle"

\* C14: the step in which len, is_empty or is_full returns leaves every store
\* and every history of the queue as it was, raises no signal and wakes no
\* thread; what it returns is determined by the store it leaves: len its
\* length, is_empty whether that length is 0, and is_full on a bounded queue
\* whether that length is the capacity.  Two observations of one kind with no
\* mutation between them agree: when a thread repeats the observer it called
\* last, and no other thread has made a call yet, it gets the answer it got.
C14_PureObservers ==
    [][\A t \in Threads : Observes(t) =>
            /\ store' = store /\ detached' = detached
            /\ nsig' = nsig /\ hist' = hist
            /\ \A u \in Threads \ {t} : pc'[u] = pc[u]
            /\ op[t] = "len" =>
                 result'[t].tag = "Len" /\ result'[t].item.val = Len(store')
            /\ op[t] = "is_empty" =>
                 result'[t].tag = (IF Len(store') = 0 THEN "True" ELSE "False")
            /\ (op[t] = "is_full" /\ maxsize # None) =>
                 result'[t].tag = (IF Len(store') = maxsize[1] THEN "True"
                                                               ELSE "False")
            /\ (result[t].op = op[t] /\ \A u \in Threads \ {t} :
                    op[u] = "none" /\ result[u].op = "none")
                 => result'[t] = result[t]
         ]_vars

\* A full queue of capacity 1: t1 has asked is_full once, got true, and is
\* about to get its second answer, no other thread having made a call.
C14_Witness ==
    /\ maxsize = Some(1) /\ Len(store) = 1 /\ budget = 0
    /\ result["t1"].op = "is_full" /\ result["t1"].tag = "True"
    /\ op["t1"] = "is_full" /\ pc["t1"] = "call_locked"
    /\ result["t2"].op = "none"

\* ------------------------------------------------------------------- C15
\* The effect of one notify_one made by thread t on the callers of waitOp: a
\* blocked one is woken if there is any, and no other thread is moved.
WakesOne(t, waitOp) ==
    LET W == {u \in Threads : pc[u] = "blocked" /\ op[u] = waitOp}
    IN  /\ W # {} => \E w \in W : pc'[w] = "woken"
        /\ Cardinality({u \in Threads \ {t} : pc'[u] # pc[u]})
             = IF W = {} THEN 0 ELSE 1

\* C15: a step that inserts is the successful return of a put (alone or at the
\* end of put_wait) and makes exactly one notify_one on not_empty and none on
\* not_full; a step that removes is the successful return of a get and makes
\* exactly one notify_one on not_full and none on not_empty; a step that
\* leaves the store as it is makes no notify_one, and the return of get with
\* Empty or of put with Full wakes nobody.
C15_SignalsFollowMutations ==
    [][/\ \A t \in Threads :
            /\ Returns(t, "Done") =>
                /\ Len(store') = Len(store) + 1
                /\ nsig' = [nsig EXCEPT !.not_empty = @ + 1]
                /\ WakesOne(t, "get_wait")
            /\ Returns(t, "Ok") =>
                /\ Len(store') = Len(store) - 1
                /\ nsig' = [nsig EXCEPT !.not_full = @ + 1]
                /\ WakesOne(t, "put_wait")
            /\ (Returns(t, "Empty") \/ Returns(t, "Full")) =>
                /\ nsig' = nsig
                /\ \A u \in Threads \ {t} : pc'[u] = pc[u]
       /\ Len(store') > Len(store) => \E t \in Threads : Returns(t, "Done")
       /\ Len(store') < Len(store) => \E t \in Threads : Returns(t, "Ok")
       /\ store' = store => nsig' = nsig
      ]_vars

\* A put has returned and its notify_one has woken the get_wait caller: one
\* notification on not_empty, none on not_full, the item in the store.
C15_Witness ==
    \E t, u \in Threads :
        /\ result[t].op = "put" /\ result[t].tag = "Done" /\ pc[t] = "idle"
        /\ op[u] = "get_wait" /\ pc[u] = "woken"
        /\ nsig = [not_empty |-> 1, not_full |-> 0] /\ Len(store) = 1
        /\ budget = MaxCalls - 2

\* ------------------------------------------------------------------- C16
\* C16: in the documentation example, under every interleaving, the consumer
\* receives 0, then 1, then 2 (the values in the order they were put), both
\* threads come to the end of their calls, and the queue is empty from then on.
C16_DocExample ==
    /\ [](\A i \in DOMAIN got : got[i].val = i - 1)
    /\ [](\A t \in Threads : result[t].op = "get_wait" => result[t].tag = "Ok")
    /\ <>[](/\ budget = 0 /\ \A t \in Threads : pc[t] = "idle"
            /\ Len(got) = MaxN /\ store = <<>>)

\* The producer has made all its calls; the consumer, in its last get_wait,
\* tested the queue before the last value arrived and blocked after it: the
\* value is in the store and nobody will wake the consumer.
C16_ConsumerStuck ==
    /\ nextVal = MaxN /\ pc["t2"] = "idle" /\ Len(putLog) = MaxN
    /\ op["t1"] = "get_wait" /\ pc["t1"] = "blocked"
    /\ Len(got) = MaxN - 1 /\ Len(store) = 1

\* ------------------------------------------------------------------- C17
\* C17: with no other thread active, a get_wait call made on a non-empty store
\* and a put_wait call made on a store that is not full never reach the wait
\* (they neither lock `pending` nor block), whatever the timeout; and they end
\* as get and put end: get_wait returns Ok with the element the backing
\* store's get yields and leaves the rest, exactly as a get returning from the
\* same store does, and put_wait appends its value and returns Ok(()) as put
\* does.
C17_WaitingEqualsNonWaiting ==
    /\ [](\A t \in Threads :
            /\ (op[t] = "get_wait" /\ store # <<>>) => pc[t] \notin WaitingPcs
            /\ (op[t] = "put_wait" /\ Some(Len(store)) # maxsize)
                 => pc[t] \notin WaitingPcs)
    /\ [][\A t \in Threads :
            /\ (op[t] \in {"get", "get_wait"} /\ store # <<>>
                    /\ pc[t] = "call_locked" /\ pc'[t] = "idle") =>
                 \E r \in StoreGet(kind, store) :
                    /\ result'[t].tag = "Ok" /\ result'[t].item = r.item
                    /\ store' = r.rest /\ got' = Append(got, r.item)
            /\ (op[t] \in {"put", "put_wait"} /\ Some(Len(store)) # maxsize
                    /\ pc[t] = "call_locked" /\ pc'[t] = "idle") =>
                 /\ result'[t].tag = "Done"
                 /\ store' = Append(store, arg[t])
                 /\ putLog' = Append(putLog, arg[t])
         ]_vars

\* A priority queue was given two items of different priorities, the second
\* through put_wait or put, and a get_wait with a positive timeout has
\* returned the greater one and left the other.
C17_Witness ==
    /\ kind = "priority" /\ Len(putLog) = 2 /\ Len(store) = 1
    /\ result["t1"].op = "get_wait" /\ result["t1"].timeout > 0
    /\ result["t1"].tag = "Ok" /\ result["t1"].item.pri > store[1].pri
    /\ nsig = [not_empty |-> 2, not_full |-> 1]

\* ------------------------------------------------------------------- C18
\* Thread t is blocked in an untimed wait whose condition holds.
StuckGetter(t) ==
    /\ op[t] = "get_wait" /\ timeout[t] = 0 /\ pc[t] = "blocked"
    /\ store # <<>>

StuckPutter(t) ==
    /\ op[t] = "put_wait" /\ timeout[t] = 0 /\ pc[t] = "blocked"
    /\ Some(Len(store)) # maxsize

\* C18: no stuck waiter.  There is no state in which every other thread has
\* finished its calls while a thread is blocked in get_wait (timeout 0) with
\* the store non-empty, or blocked in put_wait (timeout 0) with the store not
\* full.
C18_NoStuckWaiter ==
    \A t \in Threads :
        (\A u \in Threads \ {t} : pc[u] = "idle")
        => ~StuckGetter(t) /\ ~StuckPutter(t)

\* A queue of capacity 1 was full when put_wait tested it; a get then emptied
\* it and notified not_full before the put_wait caller began to wait: the
\* caller is blocked, the store is empty, and the other thread is idle.
C18_StuckPutter ==
    \E t, u \in Threads :
        /\ t # u /\ StuckPutter(t) /\ maxsize = Some(1) /\ store = <<>>
        /\ pc[u] = "idle" /\ result[u].op = "get" /\ result[u].tag = "Ok"
        /\ nsig.not_full = 1 /\ budget = 0

\* ------------------------------------------------------------------- C19
\* C19: a get_wait call with timeout 0 returns only with an element, never
\* with the Empty fault, and a put_wait call with timeout 0 on a queue of
\* capacity at least 1 returns only with success, never with the Full fault.
C19_UntimedWaitNeverFaults ==
    \A t \in Threads :
        /\ (result[t].op = "get_wait" /\ result[t].timeout = 0)
             => result[t].tag = "Ok"
        /\ (result[t].op = "put_wait" /\ result[t].timeout = 0
                /\ maxsize # None /\ maxsize # Some(0))
             => result[t].tag = "Done"

\* The only element was taken by the other thread's get between the get_wait
\* caller's emptiness test and its own get: get_wait(0) has returned Empty.
C19_ElementStolen ==
    \E t, u \in Threads :
        /\ result[t].op = "get_wait" /\ result[t].timeout = 0
        /\ result[t].tag = "Empty"
        /\ result[u].op = "get" /\ result[u].tag = "Ok"
        /\ Len(putLog) = 1 /\ Len(got) = 1

\* ------------------------------------------------------------------- C20
\* C20: the step in which a get_wait with a positive timeout returns the Empty
\* fault is taken with the store empty, and the step in which a put_wait with
\* a positive timeout returns the Full fault is taken with the store full.
C20_TimedFaultMatchesStore ==
    [][\A t \in Threads :
        (timeout[t] > 0 /\ pc'[t] = "idle" /\ pc[t] # "idle") =>
            /\ (op[t] = "get_wait" /\ result'[t].tag = "Empty") => store = <<>>
            /\ (op[t] = "put_wait" /\ result'[t].tag = "Full")
                 => Some(Len(store)) = maxsize
      ]_vars

\* A timed get_wait whose wait has run out is about to return Empty although
\* the other thread's put, made before the wait began and now complete, has
\* left an element in the store.
C20_FaultWithElement ==
    \E t, u \in Threads :
        /\ op[t] = "get_wait" /\ timeout[t] > 0 /\ pc[t] = "after_wait_to"
        /\ store # <<>> /\ got = <<>>
        /\ pc[u] = "idle" /\ result[u].op = "put" /\ result[u].tag = "Done"

=============================================================================
